---- MODULE Spec2Model ----
(***************************************************************************)
(* A model of generate-notes.py: the conversion of a list of verse records *)
(* into one note per verse.  Texts, book names, paths and note lines are   *)
(* strings; the tag lists are sequences of strings; the destination is a   *)
(* set of directories and a function from note paths to note contents.     *)
(***************************************************************************)
EXTENDS Integers, Sequences, FiniteSets, TLC

(***************************************************************************)
(* Bounds of the model.                                                    *)
(***************************************************************************)
MaxFrags == 2
MaxSeqLen == 4
MaxBatch == 2

(***************************************************************************)
(* Canon and mappings.                                                     *)
(***************************************************************************)
BOOKS_IN_ORDER ==
  << "Genesis","Exodus","Leviticus","Numbers","Deuteronomy",
     "Joshua","Judges","Ruth","1 Samuel","2 Samuel","1 Kings","2 Kings",
     "1 Chronicles","2 Chronicles","Ezra","Nehemiah","Esther",
     "Job","Psalms","Proverbs","Ecclesiastes","Song of Solomon",
     "Isaiah","Jeremiah","Lamentations","Ezekiel","Daniel",
     "Hosea","Joel","Amos","Obadiah","Jonah","Micah","Nahum","Habakkuk",
     "Zephaniah","Haggai","Zechariah","Malachi",
     "Matthew","Mark","Luke","John","Acts","Romans","1 Corinthians","2 Corinthians",
     "Galatians","Ephesians","Philippians","Colossians","1 Thessalonians","2 Thessalonians",
     "1 Timothy","2 Timothy","Titus","Philemon","Hebrews","James","1 Peter","2 Peter",
     "1 John","2 John","3 John","Jude","Revelation" >>

\* The keys of BOOK_TO_ORD.
CanonicalBooks == { BOOKS_IN_ORDER[k] : k \in 1..Len(BOOKS_IN_ORDER) }

BOOK_TO_ORD == [ b \in CanonicalBooks |->
                   CHOOSE k \in 1..Len(BOOKS_IN_ORDER) : BOOKS_IN_ORDER[k] = b ]

BOOK_NAME_FIX ==
  { <<"1Samuel","1 Samuel">>, <<"2Samuel","2 Samuel">>,
    <<"1Kings","1 Kings">>, <<"2Kings","2 Kings">>,
    <<"1Chronicles","1 Chronicles">>, <<"2Chronicles","2 Chronicles">>,
    <<"1Corinthians","1 Corinthians">>, <<"2Corinthians","2 Corinthians">>,
    <<"1Thessalonians","1 Thessalonians">>, <<"2Thessalonians","2 Thessalonians">>,
    <<"1Timothy","1 Timothy">>, <<"2Timothy","2 Timothy">>,
    <<"1Peter","1 Peter">>, <<"2Peter","2 Peter">>,
    <<"1John","1 John">>, <<"2John","2 John">>, <<"3John","3 John">>,
    <<"SongofSolomon","Song of Solomon">>, <<"SongofSongs","Song of Solomon">>,
    <<"Canticles","Song of Solomon">> }

BOOK_GENRE == [ b \in CanonicalBooks |->
  LET n == BOOK_TO_ORD[b] IN
  IF n <= 5 THEN "Law"
  ELSE IF n <= 17 THEN "History"
  ELSE IF n <= 22 THEN "Poetry/Wisdom"
  ELSE IF n <= 27 THEN "Major Prophet"
  ELSE IF n <= 39 THEN "Minor Prophet"
  ELSE IF n <= 43 THEN "Gospel"
  ELSE IF n = 44 THEN "History"
  ELSE IF n <= 57 THEN "Pauline Epistle"
  ELSE IF n <= 65 THEN "General Epistle"
  ELSE "Apocalypse" ]

(***************************************************************************)
(* Theme dictionaries (all lowercase).                                     *)
(***************************************************************************)
NAMES_OF_GOD ==
  { "jehovah","yahweh","yhwh","lord","god","el","eloah","elohim","adonai","most high","almighty",
    "jehovah-jireh","jehovah jireh","yahweh-yireh","yahweh yireh",
    "jehovah-rapha","jehovah rapha","yahweh-rapha","yahweh rapha",
    "jehovah-nissi","jehovah nissi","yahweh-nissi","yahweh nissi",
    "jehovah-shalom","jehovah shalom","yahweh-shalom","yahweh shalom",
    "jehovah-raah","jehovah raah","yahweh-raah","yahweh raah",
    "jehovah-tsidkenu","jehovah tsidkenu","yahweh-tsidqenu","yahweh tsidqenu",
    "jehovah-shammah","jehovah shammah","yahweh-shammah","yahweh shammah",
    "lord of hosts","king of kings","lord of lords","ancient of days","the rock","i am","i am that i am" }

PHYSICAL_WARFARE ==
  { " war ", " war.", ", war","war, ","battle","battles","fight","fought","fighting","army","armies","hosts",
    "chariot","chariots","spear","spears","sword","swords","shield","shields",
    "captains","horse","horses","siege","besieged","slain","smote","smite","smitten","kill","killed" }

SPIRITUAL_WARFARE ==
  { "armor of god","whole armour of god","devil","devils","satan","tempter","temptation","stronghold","strongholds",
    "principalities","powers","rulers of the darkness","spiritual wickedness","fiery darts","resist","deliver us from evil" }

ONE_ANOTHER_PHRASES ==
  { "one another","each other","one to another","one toward another","members one of another" }

JESUS_TITLES_NoBareName ==
  { "jesus christ","christ jesus","the christ","christ","messiah","immanuel","emmanuel","rabbi","teacher" }

JESUS_TITLES ==
  { "jesus","jesus christ","christ jesus","the christ","christ","messiah","immanuel","emmanuel","rabbi","teacher" }

JESUS_SON_OF_GOD == { "son of god","only begotten son" }
JESUS_SON_OF_MAN == { "son of man" }
JESUS_LORD_PHRASES == { "lord jesus","our lord jesus","lord jesus christ" }
JESUS_LAMB_WORD == { "lamb of god" }

THANKSGIVING_WORDS == { "give thanks","thanksgiving","thanks be","thank","thanked","thankful" }
PRAISE_WORDS == { "praise","praised","praiseth","sing","sang","sung","worship","bless the lord","bless the name" }
LAMENT_WORDS == { "woe","lament","tears","mourn","mourning","cry","cried","crying" }

COVENANT_WORDS == { "covenant","everlasting covenant","my covenant","new covenant" }

BENEDICTION_WORDS ==
  { "blessed is","blessed be","peace be","the lord bless thee","the lord make his face shine","the lord lift up" }

NEG_COMMAND_PATTERNS == { "do not","be not","let not","thou shalt not" }
POS_COMMAND_PATTERNS == { "thou shalt","ye shall","you shall" }
FRUIT_WORKS_WORDS == { "fruit of the spirit","works of the flesh","good works","evil works" }

ADVERSARY_TITLES == { "satan","devil","lucifer","beelzebub","belial","antichrist","the wicked one","the evil one","the adversary" }
ADVERSARY_EPITHETS ==
  { "accuser","tempter","destroyer","deceiver","father of lies","murderer from the beginning",
    "prince of this world","prince of the power of the air","god of this world","that wicked",
    "man of sin","son of perdition","mystery of iniquity" }
ADVERSARY_METAPHORS == { "serpent","that old serpent","dragon","red dragon","roaring lion","leviathan","angel of light" }
ADVERSARY_NAMED_ENTITIES == { "abaddon","apollyon","legion" }
DEMONIC_ENTITIES == { "devils","unclean spirit","unclean spirits","evil spirit","evil spirits","familiar spirit","familiar spirits" }
DEMONIC_PHRASES == { "works of the devil","synagogue of satan","power of darkness","rulers of the darkness","doctrines of devils","possessed with a devil","cast out devils" }

LUCIFER_WORDS ==
  ADVERSARY_TITLES \cup ADVERSARY_EPITHETS \cup ADVERSARY_METAPHORS \cup
  ADVERSARY_NAMED_ENTITIES \cup DEMONIC_ENTITIES \cup DEMONIC_PHRASES

TIME_ESCHATOLOGY ==
  { "in the last days","the last days","the latter days","in that day","in those days",
    "day of the lord","the time of the end","the end of days","time appointed","times and seasons",
    "a time times and an half","forty and two months","one thousand two hundred and threescore days",
    "shortly come to pass","the time is at hand","he that shall come will come",
    "from everlasting to everlasting","for ever and ever","the fullness of time" }

TIME_UNITS ==
  { "day","days","month","months","year","years","week","weeks","sabbath","sabbaths","jubilee" }

TIME_PARTS_OF_DAY ==
  { "morning","noon","evening","night","midnight","dawning of the day","break of day",
    "the third hour","the sixth hour","the ninth hour","the eleventh hour",
    "watch of the night","first watch","second watch","third watch","fourth watch" }

TIME_SEASONS ==
  { "winter","summer","harvest","seedtime","cold and heat",
    "former rain","latter rain","early rain","time of the latter rain" }

TIME_FEASTS ==
  { "passover","feast of unleavened bread","pentecost","feast of weeks","feast of trumpets",
    "day of atonement","feast of tabernacles","feast of booths","new moon","new moons","sabbath day" }

TIME_PERIOD_PHRASES ==
  { "at that time","at the time appointed","at the end of","in process of time",
    "after many days","after these things","before these days","from that day forward",
    "hereafter","henceforth","from this time forth","till the day","until the time","until the day",
    "for a season","for a time","for a long time","for a little while","not many days hence",
    "yet a little while","a little season" }

\* The first assignment of TIME_MARKERS, which the second one replaces
\* before any function runs.
TIME_MARKERS_Shadowed ==
  { "in that day","at that time","for ever","forever","until","the last days","the latter days",
    "day of the lord","time appointed","evening","morning","time","hour","days" }

\* The assignment of TIME_MARKERS that is live when the taggers run.
TIME_MARKERS ==
  TIME_ESCHATOLOGY \cup TIME_UNITS \cup TIME_PARTS_OF_DAY \cup
  TIME_SEASONS \cup TIME_FEASTS \cup TIME_PERIOD_PHRASES

(***************************************************************************)
(* String helpers: what the Python str methods used by the code do.        *)
(***************************************************************************)
Char(s, i) == SubSeq(s, i, i)

\* w in t
Contains(t, w) ==
  \E i \in 1..(Len(t) - Len(w) + 1) : SubSeq(t, i, i + Len(w) - 1) = w

\* t.startswith(p)
StartsWith(t, p) == Len(p) <= Len(t) /\ SubSeq(t, 1, Len(p)) = p

\* t.endswith(p)
EndsWith(t, p) == Len(p) <= Len(t) /\ SubSeq(t, Len(t) - Len(p) + 1, Len(t)) = p

\* any(w in t for w in words)
AnyIn(t, words) == \E w \in words : Contains(t, w)

\* t.count(c) for a one-character c
Count(t, c) == Cardinality({ i \in 1..Len(t) : Char(t, i) = c })

Whitespace == { " ", "\t", "\n", "\r" }

SetMin(S) == CHOOSE x \in S : \A y \in S : x <= y
SetMax(S) == CHOOSE x \in S : \A y \in S : x >= y

\* s.strip()
Strip(s) ==
  LET solid == { i \in 1..Len(s) : Char(s, i) \notin Whitespace }
  IN  IF solid = {} THEN "" ELSE SubSeq(s, SetMin(solid), SetMax(solid))

UpperLetters == "ABCDEFGHIJKLMNOPQRSTUVWXYZ"
LowerLetters == "abcdefghijklmnopqrstuvwxyz"
Digits == "0123456789"

LowerChar(c) ==
  IF \E k \in 1..26 : Char(UpperLetters, k) = c
  THEN Char(LowerLetters, CHOOSE k \in 1..26 : Char(UpperLetters, k) = c)
  ELSE c

RECURSIVE Lower(_)
\* s.lower()
Lower(s) ==
  IF Len(s) = 0 THEN ""
  ELSE LowerChar(Char(s, 1)) \o Lower(SubSeq(s, 2, Len(s)))

\* words = tl.split(); first = words[0] if words else ""
FirstWord(tl) ==
  LET s == Strip(tl)
      gaps == { i \in 1..Len(s) : Char(s, i) \in Whitespace }
  IN  IF Len(s) = 0 THEN ""
      ELSE IF gaps = {} THEN s
      ELSE SubSeq(s, 1, SetMin(gaps) - 1)

WordChars == UpperLetters \o LowerLetters \o Digits \o "'"

IsWordChar(c) == Contains(WordChars, c)

\* len(WORD_TOKEN.findall(text)): the number of maximal runs of word characters
word_count(text) ==
  Cardinality({ i \in 1..Len(text) :
                  /\ IsWordChar(Char(text, i))
                  /\ (i = 1 \/ ~IsWordChar(Char(text, i - 1))) })

SafeChars == UpperLetters \o LowerLetters \o Digits \o " .:-"

RECURSIVE RemoveUnsafe(_)
RemoveUnsafe(s) ==
  IF Len(s) = 0 THEN ""
  ELSE (IF Contains(SafeChars, Char(s, 1)) THEN Char(s, 1) ELSE "")
         \o RemoveUnsafe(SubSeq(s, 2, Len(s)))

\* SAFE_FILENAME.sub('', name).strip()
sanitize_filename(name) == Strip(RemoveUnsafe(name))

\* BOOK_NAME_FIX.get(raw, raw) after raw = str(raw).strip()
fix_book_name(raw) ==
  LET r == Strip(raw)
  IN  IF \E p \in BOOK_NAME_FIX : p[1] = r
      THEN (CHOOSE p \in BOOK_NAME_FIX : p[1] = r)[2]
      ELSE r

RECURSIVE dedup_loop(_, _, _)
dedup_loop(seq, seen, out) ==
  IF seq = <<>> THEN out
  ELSE IF Head(seq) \notin seen
       THEN dedup_loop(Tail(seq), seen \cup {Head(seq)}, Append(out, Head(seq)))
       ELSE dedup_loop(Tail(seq), seen, out)

RECURSIVE dedup_keep_last(_)
\* A deduplication that keeps each label's last position instead of its first.
dedup_keep_last(seq) ==
  IF seq = <<>> THEN <<>>
  ELSE IF \E k \in 2..Len(seq) : seq[k] = Head(seq)
       THEN dedup_keep_last(Tail(seq))
       ELSE <<Head(seq)>> \o dedup_keep_last(Tail(seq))

dedup_preserve(seq) == dedup_loop(seq, {}, <<>>)

(***************************************************************************)
(* Tagging.                                                                *)
(***************************************************************************)
Emit(cond, tag) == IF cond THEN <<tag>> ELSE <<>>

\* The straight double quote; the four curly quotes of the source are not in
\* the alphabet of the modelled texts.
DialogueMarks == { "\"" }

CONTRAST_OPENERS == { "but","however","yet","nevertheless","though","still","rather" }
INFERENCE_OPENERS == { "therefore","wherefore","so","then" }
CONJUNCTIVE_OPENERS == { "and" }

NegationMarkers == { " not ","neither"," nor ","without"," no "," never " }

\* Contrast markers that also match a sentence-initial "but ".
ContrastMarkers_BareBut == { "but "," but,","but, ","yet","however","nevertheless","though" }

ContrastMarkers == { " but "," but,","but, ","yet","however","nevertheless","though" }

ConditionalWords == { "unless","except","provided that","in case","whether","lest","though" }
RhetoricalCues == { "what if","think ye","think you","shall we","should we","would we","would you","could we","suppose" }
QuestionCues == { "think","suppose","consider","reckon" }
CauseEffectMarkers == { "therefore","for this cause","so that" }
ClosingFormulas == { "grace be unto you","grace be to you","grace and peace"," amen" }

IsConditional(t, tl) ==
  \/ Contains(tl, "if")
  \/ AnyIn(tl, ConditionalWords)
  \/ AnyIn(tl, RhetoricalCues)
  \/ (EndsWith(t, "?") /\ AnyIn(tl, QuestionCues))

\* The list detect_grammar_tags builds before deduplication.
GrammarRaw(text) ==
  LET t == Strip(text)
      tl == Lower(t)
      first == FirstWord(tl)
  IN  Emit(EndsWith(t, "?"), "question")
      \o Emit(EndsWith(t, "!"), "exclamation")
      \o Emit(AnyIn(t, DialogueMarks), "dialogue")
      \o Emit(Count(t, ";") >= 2, "semicolon-heavy")
      \o Emit(first \in CONTRAST_OPENERS, "contrast-opener")
      \o Emit(first \in INFERENCE_OPENERS, "inference-opener")
      \o Emit(first \in CONJUNCTIVE_OPENERS, "conjunctive-opener")
      \o Emit(AnyIn(tl, NegationMarkers), "negation")
      \o Emit(AnyIn(tl, ContrastMarkers), "contrast")
      \o Emit(IsConditional(t, tl), "conditional")
      \o Emit(AnyIn(tl, CauseEffectMarkers), "cause-effect")
      \o Emit(AnyIn(tl, ClosingFormulas), "greeting/closing")
      \o Emit(Contains(tl, "begat") \/ Contains(tl, "son of") \/ Contains(tl, "daughter of"),
              "genealogy-structure")

detect_grammar_tags(text) == dedup_preserve(GrammarRaw(text))

\* Both command rules evaluated independently of each other.
EthicsTags_Independent(tl) ==
  Emit(\E p \in NEG_COMMAND_PATTERNS : StartsWith(tl, p), "negative-command")
  \o Emit(\E p \in POS_COMMAND_PATTERNS : StartsWith(tl, p), "positive-command")

\* if any(startswith NEG) ... elif any(startswith POS) ...
EthicsTags(tl) ==
  IF \E p \in NEG_COMMAND_PATTERNS : StartsWith(tl, p) THEN <<"negative-command">>
  ELSE IF \E p \in POS_COMMAND_PATTERNS : StartsWith(tl, p) THEN <<"positive-command">>
  ELSE <<>>

ChristologyTags(tl) ==
  Emit(AnyIn(tl, JESUS_LORD_PHRASES) \/ Contains(tl, "jesus"), "jesus")
  \o (IF AnyIn(tl, JESUS_TITLES) THEN <<"jesus-title", "jesus">> ELSE <<>>)
  \o (IF AnyIn(tl, JESUS_SON_OF_GOD) THEN <<"son-of-god", "jesus">> ELSE <<>>)
  \o (IF AnyIn(tl, JESUS_SON_OF_MAN) THEN <<"son-of-man", "jesus">> ELSE <<>>)
  \o (IF AnyIn(tl, JESUS_LAMB_WORD) THEN <<"lamb-of-god", "jesus">> ELSE <<>>)

AdversaryTags(tl) ==
  Emit(AnyIn(tl, ADVERSARY_TITLES), "adversary-title")
  \o Emit(AnyIn(tl, ADVERSARY_EPITHETS), "adversary-epithet")
  \o Emit(AnyIn(tl, ADVERSARY_METAPHORS), "adversary-metaphor")
  \o Emit(AnyIn(tl, ADVERSARY_NAMED_ENTITIES), "adversary-named")
  \o Emit(AnyIn(tl, DEMONIC_ENTITIES), "demonic-entities")
  \o Emit(AnyIn(tl, DEMONIC_PHRASES), "demonic-phrases")
  \o Emit(AnyIn(tl, LUCIFER_WORDS), "adversary")

TimeTags(tl) ==
  Emit(AnyIn(tl, TIME_ESCHATOLOGY), "time-eschatology")
  \o Emit(AnyIn(tl, TIME_UNITS), "time-units")
  \o Emit(AnyIn(tl, TIME_PARTS_OF_DAY), "time-parts-of-day")
  \o Emit(AnyIn(tl, TIME_SEASONS), "time-seasons")
  \o Emit(AnyIn(tl, TIME_FEASTS), "time-feasts")
  \o Emit(AnyIn(tl, TIME_PERIOD_PHRASES), "time-period")
  \o Emit(AnyIn(tl, TIME_MARKERS), "time")

\* The list detect_thematic_tags builds before deduplication.
ThematicRaw(text) ==
  LET tl == Lower(Strip(text))
  IN  Emit(AnyIn(tl, NAMES_OF_GOD), "names-of-god")
      \o Emit(AnyIn(tl, PHYSICAL_WARFARE), "warfare")
      \o Emit(AnyIn(tl, SPIRITUAL_WARFARE), "warfare")
      \o Emit(AnyIn(tl, ONE_ANOTHER_PHRASES), "one-another")
      \o ChristologyTags(tl)
      \o AdversaryTags(tl)
      \o Emit(AnyIn(tl, THANKSGIVING_WORDS), "thanksgiving")
      \o Emit(AnyIn(tl, PRAISE_WORDS), "praise-worship")
      \o Emit(AnyIn(tl, LAMENT_WORDS), "lament")
      \o Emit(AnyIn(tl, COVENANT_WORDS), "covenant")
      \o Emit(AnyIn(tl, BENEDICTION_WORDS), "benediction")
      \o EthicsTags(tl)
      \o TimeTags(tl)

detect_thematic_tags(text) == dedup_preserve(ThematicRaw(text))

(***************************************************************************)
(* State.                                                                  *)
(***************************************************************************)
VARIABLES
  text,        \* the text handed to the two taggers
  seq,         \* the label list handed to dedup_preserve
  gtags,       \* result of detect_grammar_tags(text)
  ttags,       \* result of detect_thematic_tags(text)
  out,         \* result of dedup_preserve(seq)
  tpc,         \* position of the tagging run: "start", "tagged", "done"
  infile,      \* what --infile points at: "missing", "unreadable", "badjson", "notlist", "list"
  data,        \* the decoded top-level list
  force,       \* --force
  rootExists,  \* whether the directory --out exists
  dirs,        \* the book directories under --out
  files,       \* note path |-> the lines of the note
  pc,          \* position of main / write_markdown
  i,           \* number of entries the loop has finished
  written, skipped, errors,
  exitCode,
  cur,         \* locals of the running write_markdown call
  calls,       \* number of calls of write_markdown in this run
  log,         \* indices of the entries handed to write_markdown, in call order
  ret,         \* how the latest write_markdown call ended
  before,      \* destination and counters when the latest call began
  initial,     \* destination before the first run
  run,         \* 1 for the first invocation of main, 2 for the repeated one
  snap         \* destination when the first run ended

tagvars == << text, seq, gtags, ttags, out, tpc >>
argvars == << infile, data, force >>
fsvars == << rootExists, dirs, files >>
mainvars == << pc, i, written, skipped, errors, exitCode, cur, calls, log, ret, before,
               initial, run, snap >>
vars == << tagvars, argvars, fsvars, mainvars >>

(***************************************************************************)
(* The tagging functions applied to bounded inputs.                        *)
(***************************************************************************)
Fragments ==
  { "Thou shalt ", "not ", " Do ", "ye shall ", "kill", "until ",
    "forever", "hour", "time", "day", "Jesus", "But " }

ExampleTexts ==
  { "But the LORD is faithful.", "Jesus wept.", "Thou shalt not kill.",
    "For ever and ever, Amen.", "" }

RECURSIVE Concat(_)
Concat(parts) == IF parts = <<>> THEN "" ELSE Head(parts) \o Concat(Tail(parts))

Texts ==
  ExampleTexts \cup
  { Concat(parts) : parts \in UNION { [1..n -> Fragments] : n \in 1..MaxFrags } }

Labels == { "jesus", "warfare", "time" }

LabelSeqs == UNION { [1..n -> Labels] : n \in 0..MaxSeqLen }

NoRecord == [kind |-> "none"]

MainIdle ==
  /\ infile = "list" /\ data = <<>> /\ force = FALSE
  /\ rootExists = FALSE /\ dirs = {} /\ files = {}
  /\ pc = "idle" /\ i = 0 /\ written = 0 /\ skipped = 0 /\ errors = 0
  /\ exitCode = 0 /\ cur = NoRecord /\ calls = 0 /\ log = <<>> /\ ret = "none"
  /\ before = NoRecord /\ initial = NoRecord /\ run = 1 /\ snap = NoRecord

InitTags ==
  /\ \/ text \in Texts /\ seq = <<>>
     \/ text = "" /\ seq \in LabelSeqs
  /\ gtags = <<>> /\ ttags = <<>> /\ out = <<>>
  /\ tpc = "start"
  /\ MainIdle

Classify ==
  /\ tpc = "start"
  /\ gtags' = detect_grammar_tags(text)
  /\ ttags' = detect_thematic_tags(text)
  /\ tpc' = "tagged"
  /\ UNCHANGED << text, seq, out, argvars, fsvars, mainvars >>

Dedup ==
  /\ tpc = "tagged"
  /\ out' = dedup_preserve(seq)
  /\ tpc' = "done"
  /\ UNCHANGED << text, seq, gtags, ttags, argvars, fsvars, mainvars >>

NextTags == Classify \/ Dedup

SpecTags == InitTags /\ [][NextTags]_vars

(***************************************************************************)
(* Properties of the tagging functions, checked under SpecTags.            *)
(***************************************************************************)
Range(s) == { s[k] : k \in 1..Len(s) }

NoDuplicates(s) == \A a, b \in 1..Len(s) : a # b => s[a] # s[b]

FirstPos(s, x) == SetMin({ k \in 1..Len(s) : s[k] = x })

Tagged == tpc \in { "tagged", "done" }

\* C2: the thematic tags never hold both negative-command and
\* positive-command; negative-command is present exactly when the trimmed
\* lowercased text starts with a negative pattern, positive-command exactly
\* when it starts with a positive pattern and with no negative one.
C2_CommandExclusive ==
  Tagged =>
    LET tl == Lower(Strip(text))
        neg == \E p \in { "do not", "be not", "let not", "thou shalt not" } : StartsWith(tl, p)
        pos == \E p \in { "thou shalt", "ye shall", "you shall" } : StartsWith(tl, p)
    IN  /\ ~({ "negative-command", "positive-command" } \subseteq Range(ttags))
        /\ ("negative-command" \in Range(ttags)) <=> neg
        /\ ("positive-command" \in Range(ttags)) <=> (pos /\ ~neg)

C2_Witness ==
  /\ tpc = "tagged"
  /\ text = "Thou shalt not kill."
  /\ "negative-command" \in Range(ttags)
  /\ "positive-command" \notin Range(ttags)

SpecificTimeTags ==
  { "time-eschatology", "time-units", "time-parts-of-day",
    "time-seasons", "time-feasts", "time-period" }

\* C3: the thematic tags hold the generic time tag if and only if they hold
\* at least one of the six specific time tags, so an entry that only the
\* replaced first TIME_MARKERS set has never yields time by itself.
C3_TimeIffSpecific ==
  Tagged => (("time" \in Range(ttags)) <=> (Range(ttags) \cap SpecificTimeTags # {}))

C3_Witness ==
  /\ tpc = "tagged"
  /\ text = "until day"
  /\ "time" \in Range(ttags)
  /\ "time-units" \in Range(ttags)

\* C8 as stated: "But the LORD is faithful." gets the grammar tags
\* contrast-opener and contrast and the thematic tag names-of-god.
C8_Original ==
  (Tagged /\ text = "But the LORD is faithful.") =>
    /\ { "contrast-opener", "contrast" } \subseteq Range(gtags)
    /\ "names-of-god" \in Range(ttags)

\* C8 amended: "But the LORD is faithful." gets the grammar tag
\* contrast-opener and not the grammar tag contrast, and the thematic tag
\* names-of-god.
C8_OpenerWithoutContrast ==
  (Tagged /\ text = "But the LORD is faithful.") =>
    /\ "contrast-opener" \in Range(gtags)
    /\ "contrast" \notin Range(gtags)
    /\ "names-of-god" \in Range(ttags)

C8_Witness ==
  /\ tpc = "tagged"
  /\ text = "But the LORD is faithful."
  /\ gtags = << "contrast-opener" >>

\* C9 as stated: "Jesus wept." gets the thematic tag jesus and not the
\* thematic tag jesus-title.
C9_Original ==
  (Tagged /\ text = "Jesus wept.") =>
    /\ "jesus" \in Range(ttags)
    /\ "jesus-title" \notin Range(ttags)

\* C9 amended: "Jesus wept." gets both thematic tags jesus and jesus-title.
C9_JesusAndTitle ==
  (Tagged /\ text = "Jesus wept.") =>
    /\ "jesus" \in Range(ttags)
    /\ "jesus-title" \in Range(ttags)

C9_Witness ==
  /\ tpc = "tagged"
  /\ text = "Jesus wept."
  /\ ttags = << "jesus", "jesus-title" >>

\* C10: dedup_preserve(seq) has no label twice, has exactly the labels of
\* seq, orders them by their first position in seq, and is unchanged by a
\* second application; the two taggers return lists without duplicates.
C10_DedupPreserve ==
  (tpc = "done") =>
    /\ NoDuplicates(out)
    /\ Range(out) = Range(seq)
    /\ \A a, b \in 1..Len(out) : a < b => FirstPos(seq, out[a]) < FirstPos(seq, out[b])
    /\ dedup_preserve(out) = out
    /\ NoDuplicates(gtags)
    /\ NoDuplicates(ttags)

C10_Witness ==
  /\ tpc = "done"
  /\ seq = << "jesus", "warfare", "jesus", "warfare" >>
  /\ out = << "jesus", "warfare" >>

(***************************************************************************)
(* Decoded JSON values and the Python conversions applied to them.         *)
(* A scalar is [t, n, s]: t is its JSON type, n its number (a float holds  *)
(* its value in tenths), s its string.  An entry of the top-level list is  *)
(* [t, n, fields]: an object with a set of key/value pairs, or a number.   *)
(***************************************************************************)
JInt(k) == [t |-> "int", n |-> k, s |-> ""]
JFloat(tenths) == [t |-> "float", n |-> tenths, s |-> ""]
JStr(str) == [t |-> "str", n |-> 0, s |-> str]
JNull == [t |-> "null", n |-> 0, s |-> ""]

JObject(pairs) == [t |-> "object", n |-> 0, fields |-> pairs]
JNumberEntry(k) == [t |-> "number", n |-> k, fields |-> {}]

HasKey(entry, key) == \E f \in entry.fields : f.key = key
Get(entry, key) == (CHOOSE f \in entry.fields : f.key = key).val

IsDigit(c) == Len(c) = 1 /\ Contains(Digits, c)
DigitVal(c) == (CHOOSE k \in 1..10 : Char(Digits, k) = c) - 1

RECURSIVE DigitsVal(_)
DigitsVal(s) ==
  IF Len(s) = 0 THEN 0
  ELSE 10 * DigitsVal(SubSeq(s, 1, Len(s) - 1)) + DigitVal(Char(s, Len(s)))

AllDigits(s) == Len(s) > 0 /\ \A k \in 1..Len(s) : IsDigit(Char(s, k))

RECURSIVE IntToStr(_)
\* str(n) for an int n
IntToStr(k) ==
  IF k < 0 THEN "-" \o IntToStr(-k)
  ELSE IF k < 10 THEN Char(Digits, k + 1)
  ELSE IntToStr(k \div 10) \o Char(Digits, (k % 10) + 1)

\* int(v): the value, or a failure that stands for ValueError / TypeError
PyInt(v) ==
  IF v.t = "int" THEN [ok |-> TRUE, n |-> v.n]
  ELSE IF v.t = "float"
       THEN [ok |-> TRUE, n |-> IF v.n >= 0 THEN v.n \div 10 ELSE -((-v.n) \div 10)]
  ELSE IF v.t = "str"
       THEN LET body == Strip(v.s)
                signed == Len(body) > 0 /\ Char(body, 1) \in { "+", "-" }
                digits == IF signed THEN SubSeq(body, 2, Len(body)) ELSE body
            IN  IF AllDigits(digits)
                THEN [ok |-> TRUE,
                      n |-> IF signed /\ Char(body, 1) = "-"
                            THEN -DigitsVal(digits) ELSE DigitsVal(digits)]
                ELSE [ok |-> FALSE, n |-> 0]
  ELSE [ok |-> FALSE, n |-> 0]

\* str(v)
PyStr(v) ==
  IF v.t = "str" THEN v.s
  ELSE IF v.t = "int" THEN IntToStr(v.n)
  ELSE IF v.t = "float"
       THEN (IF v.n < 0 THEN "-" ELSE "")
              \o IntToStr((IF v.n < 0 THEN -v.n ELSE v.n) \div 10) \o "."
              \o Char(Digits, ((IF v.n < 0 THEN -v.n ELSE v.n) % 10) + 1)
  ELSE "None"

\* Stands for the lone surrogate U+D800, which json.loads accepts in a
\* string and the utf-8 codec refuses to encode.
LoneSurrogate == "^"

Utf8Encodable(lines) == \A k \in 1..Len(lines) : ~Contains(lines[k], LoneSurrogate)

(***************************************************************************)
(* The writer.                                                             *)
(***************************************************************************)
DefaultPad == 2

RECURSIVE Zeros(_)
Zeros(k) == IF k <= 0 THEN "" ELSE "0" \o Zeros(k - 1)

get_book_ordinal(book) == BOOK_TO_ORD[book]

\* f"{n:0{pad}d}" if pad and pad > 0 else str(n), then " - " and the book
ord_folder_name(book, pad) ==
  LET num == IntToStr(get_book_ordinal(book))
  IN  (IF pad > 0 THEN Zeros(pad - Len(num)) \o num ELSE num) \o " - " \o book

RECURSIVE SpacesToHyphens(_)
\* book.replace(" ", "-")
SpacesToHyphens(s) ==
  IF Len(s) = 0 THEN ""
  ELSE (IF Char(s, 1) = " " THEN "-" ELSE Char(s, 1)) \o SpacesToHyphens(SubSeq(s, 2, Len(s)))

RECURSIVE JoinTags(_)
\* ", ".join(tags)
JoinTags(tags) ==
  IF tags = <<>> THEN ""
  ELSE IF Len(tags) = 1 THEN tags[1]
  ELSE tags[1] \o ", " \o JoinTags(Tail(tags))

RequiredKeys == << "book", "chapter", "verse", "text", "ordinal_verse" >>

Translation == "KJV"

\* The lines of the note; its last line is the verse text.
NoteLines(book, chapter, verse, ordinal, txt) ==
  << "---",
     "book: \"" \o book \o "\"",
     "chapter: " \o IntToStr(chapter),
     "verse: " \o IntToStr(verse),
     "ordinal_verse: " \o IntToStr(ordinal),
     "ref: \"" \o book \o " " \o IntToStr(chapter) \o ":" \o IntToStr(verse) \o "\"",
     "translation: \"" \o Translation \o "\"",
     "genre: \"" \o BOOK_GENRE[book] \o "\"",
     "word_count: " \o IntToStr(word_count(txt)),
     "topics: []",
     "cross_references: []",
     "grammar_tags: [" \o JoinTags(detect_grammar_tags(txt)) \o "]",
     "thematic_tags: [" \o JoinTags(detect_thematic_tags(txt)) \o "]",
     "tags: [\"Bible\",\"KJV\",\"" \o SpacesToHyphens(book) \o "\"]",
     "---",
     txt >>

\* write_markdown up to its first action on the destination: "raise" when
\* the key test fails on a value that is no container, "reject" for an
\* early return False, otherwise the locals the rest of the call uses.
Prepare(entry) ==
  IF entry.t # "object" THEN [result |-> "raise"]
  ELSE IF \E k \in 1..Len(RequiredKeys) : ~HasKey(entry, RequiredKeys[k])
       THEN [result |-> "reject"]
  ELSE
    LET book == fix_book_name(PyStr(Get(entry, "book")))
        chapter == PyInt(Get(entry, "chapter"))
        verse == PyInt(Get(entry, "verse"))
        ordinal == PyInt(Get(entry, "ordinal_verse"))
        txt == Strip(PyStr(Get(entry, "text")))
    IN  IF book \notin DOMAIN BOOK_TO_ORD THEN [result |-> "reject"]
        ELSE IF ~(chapter.ok /\ verse.ok /\ ordinal.ok) THEN [result |-> "reject"]
        ELSE IF Len(txt) = 0 THEN [result |-> "reject"]
        ELSE [result |-> "ok",
              book_dir |-> ord_folder_name(book, DefaultPad),
              path |-> ord_folder_name(book, DefaultPad) \o "/" \o
                       sanitize_filename(book \o " " \o IntToStr(chapter.n) \o "."
                                              \o IntToStr(verse.n) \o ".md"),
              content |-> NoteLines(book, chapter.n, verse.n, ordinal.n, txt)]

\* path.exists()
Exists(path) == \E f \in files : f.path = path

LinesAt(path) == IF Exists(path) THEN (CHOOSE f \in files : f.path = path).lines ELSE <<>>

\* A file opened for appending keeps what it holds.
OpenAppend(old) == old

\* What a file holds once open(mode='w') has created or truncated it.
OpenTruncate(old) == <<>>

Dest == [rootExists |-> rootExists, dirs |-> dirs, files |-> files]

Counters == [written |-> written, skipped |-> skipped, errors |-> errors]

(***************************************************************************)
(* The entries and the destinations the runs start from.                   *)
(***************************************************************************)
Verse(book, chapter, verse, ordinal, txt) ==
  JObject({ [key |-> "book", val |-> book], [key |-> "chapter", val |-> chapter],
            [key |-> "verse", val |-> verse], [key |-> "ordinal_verse", val |-> ordinal],
            [key |-> "text", val |-> txt] })

eJohn == Verse(JStr("John"), JInt(11), JInt(35), JInt(26559), JStr("Jesus wept."))
eJohnAgain == Verse(JStr(" John "), JStr("11"), JInt(35), JInt(26559), JStr(" Jesus wept! "))
eAlias == Verse(JStr("1Samuel"), JInt(1), JInt(1), JInt(7214), JStr("But the LORD."))
eUnknown == Verse(JStr("Enoch"), JInt(1), JInt(1), JInt(1), JStr("And Enoch walked."))
eMissing ==
  JObject({ [key |-> "book", val |-> JStr("John")], [key |-> "chapter", val |-> JInt(11)],
            [key |-> "verse", val |-> JInt(35)], [key |-> "ordinal_verse", val |-> JInt(26559)] })
eNonInt == Verse(JStr("John"), JStr("xi"), JInt(35), JInt(26559), JStr("Jesus wept."))
eFloat == Verse(JStr("John"), JInt(11), JFloat(355), JInt(26559), JStr("Then said the Jews."))
eEmpty == Verse(JStr("John"), JInt(11), JInt(35), JInt(26559), JStr("  "))
eNumber == JNumberEntry(7)
eSurrogate == Verse(JStr("John"), JInt(11), JInt(35), JInt(26559), JStr("Jesus ^wept."))

EntryPool ==
  { eJohn, eJohnAgain, eAlias, eUnknown, eMissing, eNonInt, eFloat, eEmpty, eNumber, eSurrogate }

Batches == UNION { [1..n -> EntryPool] : n \in 0..MaxBatch }

InfileKinds == { "missing", "unreadable", "badjson", "notlist", "list" }

\* A note an earlier run left at the path of John 11:35.
OldNote ==
  [path |-> "43 - John/John 11.35.md",
   lines |-> NoteLines("John", 11, 35, 26559, "Jesus wept")]

InitialDests ==
  { [rootExists |-> FALSE, dirs |-> {}, files |-> {}],
    [rootExists |-> TRUE, dirs |-> {}, files |-> {}],
    [rootExists |-> TRUE, dirs |-> { "43 - John" }, files |-> { OldNote }] }

(***************************************************************************)
(* main and write_markdown.                                                *)
(***************************************************************************)
TagsIdle ==
  /\ text = "" /\ seq = <<>> /\ gtags = <<>> /\ ttags = <<>> /\ out = <<>>
  /\ tpc = "idle"

Init ==
  /\ TagsIdle
  /\ infile \in InfileKinds
  /\ data \in (IF infile = "list" THEN Batches ELSE { <<>> })
  /\ force \in BOOLEAN
  /\ \E d \in InitialDests :
       /\ rootExists = d.rootExists /\ dirs = d.dirs /\ files = d.files
       /\ initial = d
       /\ snap = d
       /\ before = [dest |-> d, counters |-> [written |-> 0, skipped |-> 0, errors |-> 0]]
  /\ pc = "start"
  /\ i = 0 /\ written = 0 /\ skipped = 0 /\ errors = 0
  /\ exitCode = 0
  /\ cur = NoRecord
  /\ calls = 0 /\ log = <<>> /\ ret = "none"
  /\ run = 1

\* out_root.mkdir(parents=True, exist_ok=True)
MkOutRoot ==
  /\ pc = "start"
  /\ rootExists' = TRUE
  /\ pc' = "load"
  /\ UNCHANGED << tagvars, argvars, dirs, files, i, written, skipped, errors, exitCode,
                  cur, calls, log, ret, before, initial, run, snap >>

\* The checks of the source file, then the zeroing of the three counters.
\* read_text on an unreadable file raises out of main: exit status 1.
LoadInput ==
  /\ pc = "load"
  /\ IF infile = "list"
     THEN pc' = "loop" /\ exitCode' = exitCode
     ELSE /\ pc' = "fatal"
          /\ exitCode' = (IF infile = "missing" THEN 2
                          ELSE IF infile = "unreadable" THEN 1
                          ELSE IF infile = "badjson" THEN 3
                          ELSE 4)
  /\ written' = 0 /\ skipped' = 0 /\ errors' = 0
  /\ UNCHANGED << tagvars, argvars, fsvars, i, cur, calls, log, ret, before, initial,
                  run, snap >>

\* The exception leaves main uncaught and ends the run.
OnException_Propagate ==
  /\ pc' = "aborted"
  /\ ret' = "raised"
  /\ UNCHANGED << i, written, skipped, errors >>

\* except Exception: errors += 1, and the loop goes on with the next entry.
OnException ==
  /\ errors' = errors + 1
  /\ i' = i + 1
  /\ pc' = "loop"
  /\ ret' = "raised"
  /\ UNCHANGED << written, skipped >>

\* ok = write_markdown(...); if ok: written += 1 else: skipped += 1
OnReturn(ok) ==
  /\ IF ok THEN written' = written + 1 /\ skipped' = skipped
           ELSE skipped' = skipped + 1 /\ written' = written
  /\ i' = i + 1
  /\ pc' = "loop"
  /\ ret' = (IF ok THEN "True" ELSE "False")
  /\ UNCHANGED errors

\* The loop takes the next entry and write_markdown runs up to book_dir.mkdir.
CallWriteMarkdown ==
  /\ pc = "loop"
  /\ i < Len(data)
  /\ calls' = calls + 1
  /\ log' = Append(log, i + 1)
  /\ before' = [dest |-> Dest, counters |-> Counters]
  /\ LET p == Prepare(data[i + 1])
     IN  IF p.result = "raise" THEN OnException /\ cur' = NoRecord
         ELSE IF p.result = "reject" THEN OnReturn(FALSE) /\ cur' = NoRecord
         ELSE /\ cur' = p
              /\ pc' = "mkdir"
              /\ ret' = "running"
              /\ UNCHANGED << i, written, skipped, errors >>
  /\ UNCHANGED << tagvars, argvars, fsvars, exitCode, initial, run, snap >>

\* book_dir.mkdir(parents=True, exist_ok=True)
MkBookDir ==
  /\ pc = "mkdir"
  /\ dirs' = dirs \cup { cur.book_dir }
  /\ pc' = "exists"
  /\ UNCHANGED << tagvars, argvars, rootExists, files, i, written, skipped, errors,
                  exitCode, cur, calls, log, ret, before, initial, run, snap >>

\* if path.exists() and not force: return False
CheckExists ==
  /\ pc = "exists"
  /\ IF Exists(cur.path) /\ ~force
     THEN OnReturn(FALSE) /\ cur' = NoRecord
     ELSE /\ pc' = "open"
          /\ UNCHANGED << i, written, skipped, errors, ret, cur >>
  /\ UNCHANGED << tagvars, argvars, fsvars, exitCode, calls, log, before, initial,
                  run, snap >>

\* path.write_text, first half: the file is opened for writing.
OpenForWrite ==
  /\ pc = "open"
  /\ files' = { f \in files : f.path # cur.path }
                \cup { [path |-> cur.path, lines |-> OpenTruncate(LinesAt(cur.path))] }
  /\ pc' = "write"
  /\ UNCHANGED << tagvars, argvars, rootExists, dirs, i, written, skipped, errors,
                  exitCode, cur, calls, log, ret, before, initial, run, snap >>

\* path.write_text, second half: the content is encoded and written, or the
\* encoder raises and nothing is written; then return True.
WriteContent ==
  /\ pc = "write"
  /\ IF Utf8Encodable(cur.content)
     THEN /\ files' = { f \in files : f.path # cur.path }
                        \cup { [path |-> cur.path,
                                lines |-> LinesAt(cur.path) \o cur.content] }
          /\ OnReturn(TRUE)
     ELSE /\ files' = files
          /\ OnException
  /\ cur' = NoRecord
  /\ UNCHANGED << tagvars, argvars, rootExists, dirs, exitCode, calls, log, before,
                  initial, run, snap >>

\* The loop is exhausted and the summary line is printed.
Finish ==
  /\ pc = "loop"
  /\ i = Len(data)
  /\ pc' = "done"
  /\ UNCHANGED << tagvars, argvars, fsvars, i, written, skipped, errors, exitCode, cur,
                  calls, log, ret, before, initial, run, snap >>

\* The program is invoked once more with the same arguments and source.
Rerun ==
  /\ pc = "done"
  /\ run = 1
  /\ run' = 2
  /\ snap' = Dest
  /\ pc' = "start"
  /\ i' = 0 /\ written' = 0 /\ skipped' = 0 /\ errors' = 0
  /\ calls' = 0 /\ log' = <<>> /\ ret' = "none"
  /\ before' = [dest |-> Dest, counters |-> [written |-> 0, skipped |-> 0, errors |-> 0]]
  /\ UNCHANGED << tagvars, argvars, fsvars, exitCode, cur, initial >>

Next ==
  \/ MkOutRoot
  \/ LoadInput
  \/ CallWriteMarkdown
  \/ MkBookDir
  \/ CheckExists
  \/ OpenForWrite
  \/ WriteContent
  \/ Finish
  \/ Rerun

Spec == Init /\ [][Next]_vars

(***************************************************************************)
(* Properties of main and write_markdown, checked under Spec.              *)
(***************************************************************************)
InCall == pc \in { "mkdir", "exists", "open", "write" }

Running == pc \in { "idle", "start", "load", "loop" } \/ InCall

\* C1: the loop hands the entries to write_markdown one by one in input
\* order, each once; an exception never ends the run; each finished entry is
\* in exactly one counter, so when the run has ended after the loop,
\* written + skipped + errors is the number of entries.
C1_EveryRecordCounted ==
  /\ log = [k \in 1..calls |-> k]
  /\ calls = (IF InCall THEN i + 1 ELSE i)
  /\ pc \notin { "start", "load" } => written + skipped + errors = i
  /\ (~Running /\ pc # "fatal") =>
       /\ i = Len(data)
       /\ calls = Len(data)
       /\ written + skipped + errors = Len(data)

C1_Witness ==
  /\ pc = "done"
  /\ data = << eNumber, eJohn >>
  /\ errors = 1
  /\ written + skipped = 1
  /\ log = << 1, 2 >>

\* C4: in a run that ends in a fatal exit, write_markdown was never called
\* and the destination is as it was before the run: no directory and no
\* note was created or changed.
C4_FatalLeavesNoTrace ==
  (pc = "fatal") => (calls = 0 /\ Dest = initial)

IsIntegerValue(v) ==
  \/ v.t = "int"
  \/ v.t = "float" /\ v.n % 10 = 0
  \/ v.t = "str" /\ PyInt(v).ok

\* The records C5 is about.
MustBeRejected(entry) ==
  /\ entry.t = "object"
  /\ \/ \E k \in 1..Len(RequiredKeys) : ~HasKey(entry, RequiredKeys[k])
     \/ \E key \in { "chapter", "verse", "ordinal_verse" } :
          HasKey(entry, key) /\ ~IsIntegerValue(Get(entry, key))
     \/ HasKey(entry, "text") /\ Len(Strip(PyStr(Get(entry, "text")))) = 0
     \/ HasKey(entry, "book") /\
          fix_book_name(PyStr(Get(entry, "book"))) \notin CanonicalBooks

\* C5: a record with a missing required field, a chapter, verse or ordinal
\* that is not an integer, an empty text or an unknown book is rejected:
\* write_markdown returns False without raising, the destination is as it
\* was when the call began, and the record is counted as skipped.
C5_InvalidRecordRejected ==
  (pc = "loop" /\ i >= 1 /\ MustBeRejected(data[i])) =>
    /\ ret = "False"
    /\ Dest = before.dest
    /\ skipped = before.counters.skipped + 1
    /\ written = before.counters.written
    /\ errors = before.counters.errors

\* C6: when the second run over the same batch with the same overwrite flag
\* has ended, the destination is exactly as the first run left it.
C6_SecondRunChangesNothing ==
  (run = 2 /\ pc = "done") => Dest = snap

C6_Witness ==
  /\ run = 2
  /\ pc = "done"
  /\ force
  /\ data = << eJohn, eJohnAgain >>
  /\ written = 2
  /\ Dest = snap

IsCompleteNote(lines) ==
  /\ Len(lines) = 16
  /\ lines[1] = "---"
  /\ StartsWith(lines[2], "book: ")
  /\ StartsWith(lines[14], "tags: ")
  /\ lines[15] = "---"
  /\ Len(lines[16]) > 0

\* C7: between two records and after the last one, every file of the
\* destination that the run created or changed is a complete note: the
\* front-matter block followed by the verse text.
C7_NoPartialNote ==
  (pc \in { "loop", "done" }) =>
    \A f \in files : f \in initial.files \/ IsCompleteNote(f.lines)

\* The records C11 is about: objects that none of the rejection rules covers.
IsValidRecord(entry) == entry.t = "object" /\ ~MustBeRejected(entry)

\* The indices of the valid records of the batch that map to the path of
\* the valid record k.
SamePath(k) ==
  { j \in 1..Len(data) :
      IsValidRecord(data[j]) /\ Prepare(data[j]).path = Prepare(data[k]).path }

\* C11: without overwrite no note that exists when a record is taken up is
\* modified, whether it was present before the run or written earlier in
\* it: of several valid records with one path each later one is counted as
\* skipped and the note keeps the content of the first; with overwrite each
\* of them is counted as written and the note ends with the content of the
\* last.
C11_ExistingNoteKept ==
  /\ ~force => (\A f \in initial.files : f \in files)
  /\ (~force /\ InCall) => (\A f \in before.dest.files : f \in files)
  /\ (pc = "loop" /\ i >= 1 /\ IsValidRecord(data[i]) /\ Cardinality(SamePath(i)) >= 2) =>
       IF force
       THEN /\ ret = "True"
            /\ written = before.counters.written + 1
       ELSE (\E j \in SamePath(i) : j < i) =>
              /\ ret = "False"
              /\ skipped = before.counters.skipped + 1
              /\ files = before.dest.files
  /\ (pc = "done") =>
       \A k \in 1..Len(data) :
         (IsValidRecord(data[k]) /\ Cardinality(SamePath(k)) >= 2) =>
           IF force
           THEN LinesAt(Prepare(data[k]).path) = Prepare(data[SetMax(SamePath(k))]).content
           ELSE (\A f \in initial.files : f.path # Prepare(data[k]).path) =>
                  LinesAt(Prepare(data[k]).path) = Prepare(data[SetMin(SamePath(k))]).content

====
